---------------------------- MODULE Spec2Model ----------------------------
(***************************************************************************)
(* A model of three parts of the repository:                                *)
(*                                                                         *)
(*   - src/sdp.py, optimize_sdp: the semidefinite program for the          *)
(*     Euclidean distortion of a finite metric (specification SpecSdp);    *)
(*   - src/sorting_algorithms.py, quicksort_lomuto, partition_hoare and     *)
(*     quicksort_hoare (specification SpecSort);                           *)
(*   - src/tower_of_hanoi.py, hanoi (specification SpecHanoi).             *)
(*                                                                         *)
(* Python values that may be None or NaN are tagged records (None, NaN,    *)
(* Num(v)).  Real numbers are integers: squared distances and delta are   *)
(* whole numbers, G is stored in halves (the stored entry is twice the    *)
(* real one), and D is stored in units of 1/DUnitsPerOne.                  *)
(***************************************************************************)
EXTENDS Integers, Sequences, FiniteSets, TLC

VARIABLES
    pc,              \* where the call is
    n,               \* argument n
    verbose,         \* argument verbose
    dist_func,       \* argument dist_func, as the table of its values
    dist_matrix_sq,  \* the n x n matrix of squared distances
    i, j,            \* the loop counters of the loop being run
    delta, G,        \* the cvxpy variables (shape), None before creation
    constraints,     \* the list of constraints
    prob,            \* the cvxpy problem, None before line 47
    solver,          \* what the solver was asked: number of calls, verbose flag
    solution,        \* what the solver left: status and the variables' values
    ret,             \* the returned list, None before the return
    exc,             \* the exception that ended the call, "" if none
    call,            \* the sorting call made: function and arguments
    elements0,       \* the contents of the list when the call was made
    elements,        \* the contents of the list (the one list object there is)
    stack,           \* the call stack, the running frame last
    retval,          \* the value the last finished call returned
    result,          \* what the outermost call returned, None before that
    sort_exc,        \* the exception that ended the sorting call, "" if none
    hcall,           \* the call of hanoi made: its arguments
    initial_state0,  \* the towers when hanoi was called
    initial_state,   \* the towers (the list object passed as initial_state)
    solutions,       \* the solution lists there are: 0 is the caller's
    hstack,          \* the call stack of hanoi, the running frame last
    hresult,         \* what the outermost call of hanoi returned
    hexc             \* the exception that ended the call of hanoi, "" if none

sdpVars == <<pc, n, verbose, dist_func, dist_matrix_sq, i, j, delta, G,
             constraints, prob, solver, solution, ret, exc>>

sortVars == <<call, elements0, elements, stack, retval, result, sort_exc>>

hanoiVars == <<hcall, initial_state0, initial_state, solutions, hstack, hresult, hexc>>

vars == <<sdpVars, sortVars, hanoiVars>>

\* what optimize_sdp leaves alone
notSdp == <<sortVars, hanoiVars>>

\* what the sorting functions leave alone
notSort == <<sdpVars, hanoiVars>>

\* what hanoi leaves alone
notHanoi == <<sdpVars, sortVars>>

\* no call of hanoi is made
HanoiIdle ==
    /\ hcall = [tag |-> "None"] /\ initial_state0 = <<>> /\ initial_state = <<>>
    /\ solutions = <<>> /\ hstack = <<>> /\ hresult = [tag |-> "None"] /\ hexc = ""

----------------------------------------------------------------------------
(* Bounds of the model. *)

\* the largest n optimize_sdp is called with
MaxN == 4
\* the largest value of D2 (and of the inflation of delta) the solver tries
MaxD2 == 2
\* the largest squared distance the solver places vertex 0 at
MaxAnchor == 9
\* the resolution of D: D is stored in units of 1/DUnitsPerOne
DUnitsPerOne == 10

\* the most discs on the start tower
MaxDiscs == 3

\* the longest list sorted
MaxLen == 5
\* the values in the lists are 1 .. MaxVal
MaxVal == 2

\* the distances the oracle gives to two distinct vertices
DistVals == {1, 3}

----------------------------------------------------------------------------
(* Python values. *)

None == [tag |-> "None"]
NaN == [tag |-> "nan"]
Num(v) == [tag |-> "num", v |-> v]

Idx(m) == 0 .. (m - 1)

\* range(start, stop) as the list Python iterates over
Range(start, stop) == [k \in 1 .. (IF stop > start THEN stop - start ELSE 0) |-> start + k - 1]

\* a[k] for a Python index k into an axis of length len: a negative index
\* counts from the end
PyIndex(k, len) == IF k < 0 THEN k + len ELSE k

\* the largest r with r*r <= x, for x >= 0
ISqrt(x) == CHOOSE r \in 0 .. x : r * r <= x /\ (r + 1) * (r + 1) > x

\* np.sqrt of a value read from a cvxpy variable.  None has no sqrt: TypeError.
\* A negative float gives nan (with a RuntimeWarning, no exception).  The
\* value carries the sign of its rounding error below the grid: err < 0 with
\* v = 0 is a negative float.
NpSqrt(x) ==
    IF x.tag = "None" THEN [raised |-> "TypeError"]
    ELSE IF x.v < 0 \/ (x.v = 0 /\ x.err < 0) THEN [raised |-> "", value |-> NaN]
    ELSE [raised |-> "", value |-> Num(ISqrt(x.v * DUnitsPerOne * DUnitsPerOne))]

----------------------------------------------------------------------------
(* The distance oracles: symmetric, zero on the diagonal, positive off it. *)

UpperPairs(m) == {q \in Idx(m) \X Idx(m) : q[1] < q[2]}

Oracles(m) ==
    {[q \in Idx(m) \X Idx(m) |->
        IF q[1] = q[2] THEN 0
        ELSE IF q[1] < q[2] THEN u[q] ELSE u[<<q[2], q[1]>>]]
     : u \in [UpperPairs(m) -> DistVals]}

Triangle(d, m) ==
    \A a \in Idx(m), b \in Idx(m), c \in Idx(m) : d[<<a, c>>] <= d[<<a, b>>] + d[<<b, c>>]

----------------------------------------------------------------------------
(* cvxpy: variables, constraints, the meaning of a constraint. *)

\* cp.Variable(shape): a negative dimension is always refused (ValueError).
\* Whether a dimension of 0 is refused depends on the cvxpy release, so both
\* outcomes are possible.
ShapeOutcomes(shape) ==
    IF shape[1] < 0 \/ shape[2] < 0 THEN {"ValueError"}
    ELSE IF shape[1] = 0 \/ shape[2] = 0 THEN {"ValueError", ""}
    ELSE {""}

\* range(1,n) of lines 37 and 38
ConstraintRangeFromZero(m) == Range(0, m)
ConstraintRange(m) == Range(1, m)

\* the constraints of lines 33 to 36
BaseConstraints ==
    << [kind |-> "psd"],
       [kind |-> "D2_nonneg"],
       [kind |-> "dist_le_delta", lhs |-> dist_matrix_sq] >>

\* the two constraints lines 40 and 41 add for the pair (a, b)
PairConstraints(a, b) ==
    << [kind |-> "stretch", coef |-> dist_matrix_sq[<<a, b>>], i |-> a, j |-> b],
       [kind |-> "gram", gi |-> a - 1, gj |-> b - 1, i |-> a, j |-> b] >>

\* the sorted list of a finite set of integers
RECURSIVE SeqOfSet(_)
SeqOfSet(S) ==
    IF S = {} THEN <<>>
    ELSE LET lo == CHOOSE x \in S : \A y \in S : x <= y
         IN <<lo>> \o SeqOfSet(S \ {lo})

Without(s, k) == [m \in 1 .. (Len(s) - 1) |-> IF m < k THEN s[m] ELSE s[m + 1]]

\* the determinant of the submatrix of M with the given rows and columns
RECURSIVE Det(_, _, _), DetSum(_, _, _, _)
Det(M, rows, cols) ==
    IF Len(rows) = 0 THEN 1 ELSE DetSum(M, rows, cols, Len(cols))
DetSum(M, rows, cols, k) ==
    IF k = 0 THEN 0
    ELSE DetSum(M, rows, cols, k - 1)
         + (IF k % 2 = 1 THEN 1 ELSE -1) * M[<<rows[1], cols[k]>>]
           * Det(M, Tail(rows), Without(cols, k))

\* M (m x m) is symmetric positive semidefinite: every principal minor is >= 0
IsPSD(M, m) ==
    /\ \A a \in Idx(m), b \in Idx(m) : M[<<a, b>>] = M[<<b, a>>]
    /\ \A S \in SUBSET Idx(m) : Det(M, SeqOfSet(S), SeqOfSet(S)) >= 0

\* the point pt = (D2, delta, G) satisfies the constraint c; G is stored in
\* halves, so the stored entry equals delta[0,i] + delta[0,j] - delta[i,j]
Satisfies(c, pt) ==
    LET dn == pt.n
        gn == pt.n - 1
    IN CASE c.kind = "psd" -> IsPSD(pt.G, gn)
         [] c.kind = "D2_nonneg" -> pt.D2 >= 0
         [] c.kind = "dist_le_delta" ->
                \A q \in DOMAIN c.lhs : c.lhs[q] <= pt.delta[q]
         [] c.kind = "stretch" ->
                pt.D2 * c.coef >= pt.delta[<<PyIndex(c.i, dn), PyIndex(c.j, dn)>>]
         [] c.kind = "gram" ->
                pt.G[<<PyIndex(c.gi, gn), PyIndex(c.gj, gn)>>]
                  = pt.delta[<<0, PyIndex(c.i, dn)>>] + pt.delta[<<0, PyIndex(c.j, dn)>>]
                    - pt.delta[<<PyIndex(c.i, dn), PyIndex(c.j, dn)>>]

Feasible(p, pt) == \A k \in 1 .. Len(p.constraints) : Satisfies(p.constraints[k], pt)

----------------------------------------------------------------------------
(* The solver.  It is not part of the repository; what it is given is.  It *)
(* may fail on any problem (numerical failure), leaving the values None.   *)
(* When it reports "optimal" it returns a point that satisfies every       *)
(* constraint it was given and that no point it tried improves on.  The    *)
(* points it tries: D2 in 0..MaxD2; delta = t times the squared distances   *)
(* between the vertices other than 0, for t in 0..MaxD2; every delta[0,k]   *)
(* and delta[k,0] equal to one value in 0..MaxAnchor; G from the Gram       *)
(* identity.                                                               *)

ProblemData(p) ==
    LET k == CHOOSE k \in 1 .. Len(p.constraints) : p.constraints[k].kind = "dist_le_delta"
    IN p.constraints[k].lhs

CandidatePoints(p) ==
    LET m == p.delta_shape[1]
        lhs == ProblemData(p)
        Delta(t, a) ==
            [q \in Idx(m) \X Idx(m) |->
                IF q[1] = 0 /\ q[2] = 0 THEN lhs[q]
                ELSE IF q[1] = 0 \/ q[2] = 0 THEN a
                ELSE t * lhs[q]]
        Gram(d) ==
            [q \in Idx(m - 1) \X Idx(m - 1) |->
                d[<<0, q[1] + 1>>] + d[<<0, q[2] + 1>>] - d[<<q[1] + 1, q[2] + 1>>]]
    IN {[n |-> m, D2 |-> d2, delta |-> Delta(t, a), G |-> Gram(Delta(t, a))]
        : d2 \in 0 .. MaxD2, t \in 0 .. MaxD2, a \in 0 .. MaxAnchor}

OptimalPoints(p) ==
    LET F == {pt \in CandidatePoints(p) : Feasible(p, pt)}
    IN {pt \in F : \A other \in F : pt.D2 <= other.D2}

NonOptimalStatuses == {"infeasible", "unbounded", "solver_error"}

\* the verbose flag prob.solve() on line 48 runs the solver with: the call
\* passes no argument, and the parameter's default is False
SolveVerbose(v) == FALSE

----------------------------------------------------------------------------
(* optimize_sdp, line by line. *)

InitSdp ==
    /\ pc = "zeros"
    /\ n \in 0 .. MaxN
    /\ verbose \in BOOLEAN
    /\ dist_func \in Oracles(n)
    /\ dist_matrix_sq = None
    /\ i = 0 /\ j = 0
    /\ delta = None /\ G = None
    /\ constraints = <<>>
    /\ prob = None
    /\ solver = [calls |-> 0, verbose |-> FALSE]
    /\ solution = None
    /\ ret = None
    /\ exc = ""
    /\ call = None /\ elements0 = <<>> /\ elements = <<>> /\ stack = <<>>
    /\ retval = None /\ result = None /\ sort_exc = ""
    /\ HanoiIdle

\* line 22, and the head of the loop of line 23
Zeros ==
    /\ pc = "zeros"
    /\ dist_matrix_sq' = [q \in Idx(n) \X Idx(n) |-> 0]
    /\ IF Len(Range(0, n)) = 0
       THEN pc' = "variables" /\ UNCHANGED <<i, j>>
       ELSE pc' = "dist_loop" /\ i' = 0 /\ j' = 0
    /\ UNCHANGED <<n, verbose, dist_func, delta, G, constraints, prob, solver,
                   solution, ret, exc>>
    /\ UNCHANGED notSdp

\* lines 23 to 25: one evaluation of the oracle
DistStep ==
    /\ pc = "dist_loop"
    /\ dist_matrix_sq' = [dist_matrix_sq EXCEPT ![<<i, j>>] = dist_func[<<i, j>>] * dist_func[<<i, j>>]]
    /\ IF j + 1 < n THEN pc' = pc /\ i' = i /\ j' = j + 1
       ELSE IF i + 1 < n THEN pc' = pc /\ i' = i + 1 /\ j' = 0
       ELSE pc' = "variables" /\ UNCHANGED <<i, j>>
    /\ UNCHANGED <<n, verbose, dist_func, delta, G, constraints, prob, solver,
                   solution, ret, exc>>
    /\ UNCHANGED notSdp

\* lines 28 to 30
CreateVariables ==
    /\ pc = "variables"
    /\ \E o1 \in ShapeOutcomes(<<n, n>>), o2 \in ShapeOutcomes(<<n - 1, n - 1>>) :
          IF o1 # "" THEN pc' = "raised" /\ exc' = o1 /\ UNCHANGED <<delta, G>>
          ELSE IF o2 # "" THEN
               pc' = "raised" /\ exc' = o2 /\ delta' = [shape |-> <<n, n>>] /\ G' = G
          ELSE /\ pc' = "constraints" /\ exc' = exc
               /\ delta' = [shape |-> <<n, n>>]
               /\ G' = [shape |-> <<n - 1, n - 1>>]
    /\ UNCHANGED <<n, verbose, dist_func, dist_matrix_sq, i, j, constraints, prob,
                   solver, solution, ret>>
    /\ UNCHANGED notSdp

\* lines 33 to 36, and the heads of the loops of lines 37 and 38
InitConstraints ==
    /\ pc = "constraints"
    /\ constraints' = BaseConstraints
    /\ LET rng == ConstraintRange(n)
       IN IF Len(rng) = 0
          THEN pc' = "problem" /\ UNCHANGED <<i, j>>
          ELSE pc' = "constraint_loop" /\ i' = rng[1] /\ j' = rng[1]
    /\ UNCHANGED <<n, verbose, dist_func, dist_matrix_sq, delta, G, prob, solver,
                   solution, ret, exc>>
    /\ UNCHANGED notSdp

\* lines 37 to 42: one pair (i, j)
ConstraintStep ==
    /\ pc = "constraint_loop"
    /\ constraints' = constraints \o PairConstraints(i, j)
    /\ LET rng == ConstraintRange(n)
           last == rng[Len(rng)]
       IN IF j < last THEN pc' = pc /\ i' = i /\ j' = j + 1
          ELSE IF i < last THEN pc' = pc /\ i' = i + 1 /\ j' = rng[1]
          ELSE pc' = "problem" /\ UNCHANGED <<i, j>>
    /\ UNCHANGED <<n, verbose, dist_func, dist_matrix_sq, delta, G, prob, solver,
                   solution, ret, exc>>
    /\ UNCHANGED notSdp

\* lines 45 and 47
MakeProblem ==
    /\ pc = "problem"
    /\ prob' = [objective |-> [sense |-> "minimize", var |-> "D2"],
                constraints |-> constraints,
                delta_shape |-> delta.shape,
                G_shape |-> G.shape]
    /\ pc' = "solve"
    /\ UNCHANGED <<n, verbose, dist_func, dist_matrix_sq, i, j, delta, G, constraints,
                   solver, solution, ret, exc>>
    /\ UNCHANGED notSdp

\* line 48, the solver finding an optimum; the value it reports for D2 may be
\* off by a rounding error below the grid (err)
SolveOptimal ==
    /\ pc = "solve"
    /\ solver' = [calls |-> solver.calls + 1, verbose |-> SolveVerbose(verbose)]
    /\ \E pt \in OptimalPoints(prob), err \in {-1, 0} :
          solution' = [status |-> "optimal",
                       D2 |-> [tag |-> "num", v |-> pt.D2, err |-> err],
                       G |-> Num(pt.G),
                       delta |-> Num(pt.delta)]
    /\ pc' = "extract"
    /\ UNCHANGED <<n, verbose, dist_func, dist_matrix_sq, i, j, delta, G, constraints,
                   prob, ret, exc>>
    /\ UNCHANGED notSdp

\* line 48, the solver ending without an optimum: the values stay None
SolveFails ==
    /\ pc = "solve"
    /\ solver' = [calls |-> solver.calls + 1, verbose |-> SolveVerbose(verbose)]
    /\ \E st \in NonOptimalStatuses :
          solution' = [status |-> st, D2 |-> None, G |-> None, delta |-> None]
    /\ pc' = "extract"
    /\ UNCHANGED <<n, verbose, dist_func, dist_matrix_sq, i, j, delta, G, constraints,
                   prob, ret, exc>>
    /\ UNCHANGED notSdp

\* lines 50 to 56
Extract ==
    /\ pc = "extract"
    /\ LET status == solution.status
           D == NpSqrt(solution.D2)
       IN IF D.raised # ""
          THEN pc' = "raised" /\ exc' = D.raised /\ ret' = ret
          ELSE /\ pc' = "returned" /\ exc' = exc
               /\ ret' = <<status, D.value, solution.G, solution.delta>>
    /\ UNCHANGED <<n, verbose, dist_func, dist_matrix_sq, i, j, delta, G, constraints,
                   prob, solver, solution>>
    /\ UNCHANGED notSdp

NextSdp ==
    \/ Zeros
    \/ DistStep
    \/ CreateVariables
    \/ InitConstraints
    \/ ConstraintStep
    \/ MakeProblem
    \/ SolveOptimal
    \/ SolveFails
    \/ Extract

SpecSdp == InitSdp /\ [][NextSdp]_vars

----------------------------------------------------------------------------
(* Python lists, and the call stack of the sorting functions.              *)
(* There is one list object; a frame's local "elements" is a reference to  *)
(* it.  Python index k is position k + 1 of the TLA+ sequence.             *)

ListRef == [tag |-> "ref", id |-> 1]

\* k is a valid index into a list of length len
InRange(k, len) == -len <= k /\ k < len

\* lst[k]
Get(lst, k) == lst[PyIndex(k, Len(lst)) + 1]

\* lst[a], lst[b] = lst[b], lst[a]: both right-hand values are read first,
\* then lst[a] is assigned, then lst[b]
Swap(lst, a, b) ==
    LET pa == PyIndex(a, Len(lst)) + 1
        pb == PyIndex(b, Len(lst)) + 1
        va == lst[pb]
        vb == lst[pa]
    IN [[lst EXCEPT ![pa] = va] EXCEPT ![pb] = vb]

\* "if low_idx is None: low_idx = 0"
ResolveLow(arg) == IF arg = None THEN 0 ELSE arg.v

\* "if high_idx is None: high_idx = len(elements)-1"
ResolveHighIgnoringArgument(arg, len) == len - 1
ResolveHigh(arg, len) == IF arg = None THEN len - 1 ELSE arg.v

Top == stack[Len(stack)]
Rest == SubSeq(stack, 1, Len(stack) - 1)

\* a new frame for fn(elements, low, high)
Frame(fn, low, high) ==
    [fn |-> fn, pc |-> "entry", elements |-> ListRef, low_idx |-> low, high_idx |-> high]

\* the running frame becomes f
Goto(f) == stack' = Rest \o <<f>>

\* the running frame becomes f and calls g
Call(f, g) == stack' = Rest \o <<f, g>>

\* the running frame returns v
Return(v) ==
    /\ stack' = Rest
    /\ retval' = v
    /\ result' = IF Len(stack) = 1 THEN v ELSE result

\* the running frame raises e, which nothing catches
Raise(e) ==
    /\ stack' = <<>>
    /\ sort_exc' = e
    /\ UNCHANGED <<retval, result>>

Running(fn, at) == stack # <<>> /\ Top.fn = fn /\ Top.pc = at

----------------------------------------------------------------------------
(* quicksort_lomuto *)

\* line 31: the element goes to the left part
LomutoLeftWrongWay(x, pivot_value) == x > pivot_value
LomutoLeft(x, pivot_value) == x < pivot_value

\* lines 39 to 45: which recursive calls are made, as the pc to continue at
LomutoBranch(low_idx, high_idx, swap_idx) ==
    IF swap_idx - 1 > low_idx /\ swap_idx + 1 < high_idx THEN "both"
    ELSE IF swap_idx - 1 > low_idx /\ swap_idx + 1 >= high_idx THEN "left"
    ELSE IF swap_idx - 1 <= low_idx /\ swap_idx + 1 < high_idx THEN "right"
    ELSE "none"

\* lines 22 to 30: the defaults, the pivot, the head of the loop
L_Entry ==
    /\ Running("lomuto", "entry")
    /\ LET low == ResolveLow(Top.low_idx)
           high == ResolveHigh(Top.high_idx, Len(elements))
       IN IF ~InRange(high, Len(elements))
          THEN Raise("IndexError")
          ELSE /\ Goto([Top EXCEPT !.low_idx = low, !.high_idx = high,
                                   !.pc = IF Len(Range(low, high)) = 0 THEN "swap" ELSE "loop"]
                       @@ [pivot_value |-> Get(elements, high), swap_idx |-> low, i |-> low])
               /\ UNCHANGED <<retval, result, sort_exc>>
    /\ UNCHANGED <<call, elements0, elements>>

\* lines 30 to 34: one pass of the loop body
L_Loop ==
    /\ Running("lomuto", "loop")
    /\ LET f == Top
           next == IF f.i + 1 < f.high_idx THEN "loop" ELSE "swap"
       IN IF ~InRange(f.i, Len(elements))
          THEN Raise("IndexError") /\ UNCHANGED elements
          ELSE /\ UNCHANGED <<retval, result, sort_exc>>
               /\ IF LomutoLeft(Get(elements, f.i), f.pivot_value)
                  THEN /\ elements' = Swap(elements, f.i, f.swap_idx)
                       /\ Goto([f EXCEPT !.swap_idx = f.swap_idx + 1, !.i = f.i + 1, !.pc = next])
                  ELSE /\ elements' = elements
                       /\ Goto([f EXCEPT !.i = f.i + 1, !.pc = next])
    /\ UNCHANGED <<call, elements0>>

\* line 36, and lines 39 to 45 up to the first call
L_Swap ==
    /\ Running("lomuto", "swap")
    /\ LET f == Top
           branch == LomutoBranch(f.low_idx, f.high_idx, f.swap_idx)
       IN /\ elements' = Swap(elements, f.high_idx, f.swap_idx)
          /\ CASE branch = "both" ->
                    Call([f EXCEPT !.pc = "after_first"],
                         Frame("lomuto", Num(f.low_idx), Num(f.swap_idx - 1)))
               [] branch = "left" ->
                    Call([f EXCEPT !.pc = "after_last"],
                         Frame("lomuto", Num(f.low_idx), Num(f.swap_idx - 1)))
               [] branch = "right" ->
                    Call([f EXCEPT !.pc = "after_last"],
                         Frame("lomuto", Num(f.swap_idx + 1), Num(f.high_idx)))
               [] branch = "none" -> Goto([f EXCEPT !.pc = "return"])
    /\ UNCHANGED <<call, elements0, retval, result, sort_exc>>

\* lines 40 and 41: the first call has returned, the second is made
L_AfterFirst ==
    /\ Running("lomuto", "after_first")
    /\ Call([Top EXCEPT !.elements = retval, !.pc = "after_last"],
            Frame("lomuto", Num(Top.swap_idx + 1), Num(Top.high_idx)))
    /\ UNCHANGED <<call, elements0, elements, retval, result, sort_exc>>

\* lines 41, 43, 45: the last call has returned
L_AfterLast ==
    /\ Running("lomuto", "after_last")
    /\ Goto([Top EXCEPT !.elements = retval, !.pc = "return"])
    /\ UNCHANGED <<call, elements0, elements, retval, result, sort_exc>>

\* line 47
L_Return ==
    /\ Running("lomuto", "return")
    /\ Return(Top.elements)
    /\ UNCHANGED <<call, elements0, elements, sort_exc>>

----------------------------------------------------------------------------
(* partition_hoare *)

\* lines 52 to 59
P_Entry ==
    /\ Running("partition", "entry")
    /\ LET low == ResolveLow(Top.low_idx)
           high == ResolveHigh(Top.high_idx, Len(elements))
       IN IF ~InRange(low, Len(elements))
          THEN Raise("IndexError")
          ELSE /\ Goto([Top EXCEPT !.low_idx = low, !.high_idx = high, !.pc = "while"]
                       @@ [left_idx |-> low - 1, right_idx |-> high + 1,
                           pivot_value |-> Get(elements, low)])
               /\ UNCHANGED <<retval, result, sort_exc>>
    /\ UNCHANGED <<call, elements0, elements>>

\* lines 61 and 62; a loop that ends falls off the function, which returns None
P_While ==
    /\ Running("partition", "while")
    /\ IF Top.left_idx # Top.right_idx
       THEN /\ Goto([Top EXCEPT !.right_idx = Top.right_idx - 1, !.pc = "scan_right"])
            /\ UNCHANGED <<retval, result>>
       ELSE Return(None)
    /\ UNCHANGED <<call, elements0, elements, sort_exc>>

\* lines 63 to 65
P_ScanRight ==
    /\ Running("partition", "scan_right")
    /\ IF ~InRange(Top.right_idx, Len(elements))
       THEN Raise("IndexError")
       ELSE /\ UNCHANGED <<retval, result, sort_exc>>
            /\ IF Get(elements, Top.right_idx) > Top.pivot_value
               THEN Goto([Top EXCEPT !.right_idx = Top.right_idx - 1])
               ELSE Goto([Top EXCEPT !.left_idx = Top.left_idx + 1, !.pc = "scan_left"])
    /\ UNCHANGED <<call, elements0, elements>>

\* lines 66 and 67
P_ScanLeft ==
    /\ Running("partition", "scan_left")
    /\ IF ~InRange(Top.left_idx, Len(elements))
       THEN Raise("IndexError")
       ELSE /\ UNCHANGED <<retval, result, sort_exc>>
            /\ IF Get(elements, Top.left_idx) < Top.pivot_value
               THEN Goto([Top EXCEPT !.left_idx = Top.left_idx + 1])
               ELSE Goto([Top EXCEPT !.pc = "check"])
    /\ UNCHANGED <<call, elements0, elements>>

\* lines 68 to 70
P_Check ==
    /\ Running("partition", "check")
    /\ IF Top.left_idx >= Top.right_idx
       THEN Return(Num(Top.right_idx)) /\ UNCHANGED elements
       ELSE /\ elements' = Swap(elements, Top.left_idx, Top.right_idx)
            /\ Goto([Top EXCEPT !.pc = "while"])
            /\ UNCHANGED <<retval, result>>
    /\ UNCHANGED <<call, elements0, sort_exc>>

----------------------------------------------------------------------------
(* quicksort_hoare *)

\* lines 95 to 101: which recursive calls are made
HoareBranchLeftOnly(low_idx, high_idx, MIDDLE) ==
    IF MIDDLE > low_idx THEN "left" ELSE "none"
HoareBranch(low_idx, high_idx, MIDDLE) ==
    IF MIDDLE > low_idx /\ MIDDLE + 1 < high_idx THEN "both"
    ELSE IF MIDDLE > low_idx /\ MIDDLE + 1 >= high_idx THEN "left"
    ELSE IF MIDDLE <= low_idx /\ MIDDLE + 1 < high_idx THEN "right"
    ELSE "none"

\* lines 87 to 93
H_Entry ==
    /\ Running("hoare", "entry")
    /\ LET low == ResolveLow(Top.low_idx)
           high == ResolveHigh(Top.high_idx, Len(elements))
           f == [Top EXCEPT !.low_idx = low, !.high_idx = high]
       IN IF low < high
          THEN Call([f EXCEPT !.pc = "after_partition"],
                    Frame("partition", Num(low), Num(high)))
          ELSE Goto([f EXCEPT !.pc = "return"])
    /\ UNCHANGED <<call, elements0, elements, retval, result, sort_exc>>

\* lines 93 to 101 up to the first call; None > low_idx is a TypeError
H_AfterPartition ==
    /\ Running("hoare", "after_partition")
    /\ IF retval = None
       THEN Raise("TypeError")
       ELSE LET f == Top @@ [MIDDLE |-> retval.v]
                branch == HoareBranch(f.low_idx, f.high_idx, f.MIDDLE)
            IN /\ UNCHANGED <<retval, result, sort_exc>>
               /\ CASE branch = "both" ->
                         Call([f EXCEPT !.pc = "after_first"],
                              Frame("hoare", Num(f.low_idx), Num(f.MIDDLE)))
                    [] branch = "left" ->
                         Call([f EXCEPT !.pc = "after_last"],
                              Frame("hoare", Num(f.low_idx), Num(f.MIDDLE)))
                    [] branch = "right" ->
                         Call([f EXCEPT !.pc = "after_last"],
                              Frame("hoare", Num(f.MIDDLE + 1), Num(f.high_idx)))
                    [] branch = "none" -> Goto([f EXCEPT !.pc = "return"])
    /\ UNCHANGED <<call, elements0, elements>>

\* lines 96 and 97
H_AfterFirst ==
    /\ Running("hoare", "after_first")
    /\ Call([Top EXCEPT !.elements = retval, !.pc = "after_last"],
            Frame("hoare", Num(Top.MIDDLE + 1), Num(Top.high_idx)))
    /\ UNCHANGED <<call, elements0, elements, retval, result, sort_exc>>

\* lines 97, 99, 101
H_AfterLast ==
    /\ Running("hoare", "after_last")
    /\ Goto([Top EXCEPT !.elements = retval, !.pc = "return"])
    /\ UNCHANGED <<call, elements0, elements, retval, result, sort_exc>>

\* line 103
H_Return ==
    /\ Running("hoare", "return")
    /\ Return(Top.elements)
    /\ UNCHANGED <<call, elements0, elements, sort_exc>>

----------------------------------------------------------------------------
(* A call of quicksort_lomuto or quicksort_hoare on a list of at most      *)
(* MaxLen values of 1..MaxVal, with the default bounds or with explicit    *)
(* bounds 0 <= low_idx <= high_idx < len(elements).                        *)

Lists == UNION {[1 .. len -> 1 .. MaxVal] : len \in 0 .. MaxLen}

BoundsFor(lst) ==
    {<<None, None>>}
    \cup {<<Num(low), Num(high)>> : low \in Idx(Len(lst)), high \in Idx(Len(lst))}

InitSort ==
    /\ elements0 \in Lists
    /\ elements = elements0
    /\ \E fn \in {"lomuto", "hoare"}, b \in BoundsFor(elements0) :
          /\ (b # <<None, None>> => b[1].v <= b[2].v)
          /\ call = [fn |-> fn, low_idx |-> b[1], high_idx |-> b[2]]
          /\ stack = <<Frame(fn, b[1], b[2])>>
    /\ retval = None /\ result = None /\ sort_exc = ""
    /\ pc = "idle" /\ n = 0 /\ verbose = FALSE /\ dist_func = <<>>
    /\ dist_matrix_sq = None /\ i = 0 /\ j = 0 /\ delta = None /\ G = None
    /\ constraints = <<>> /\ prob = None /\ solver = [calls |-> 0, verbose |-> FALSE]
    /\ solution = None /\ ret = None /\ exc = ""
    /\ HanoiIdle

NextSort ==
    \/ L_Entry /\ UNCHANGED notSort
    \/ L_Loop /\ UNCHANGED notSort
    \/ L_Swap /\ UNCHANGED notSort
    \/ L_AfterFirst /\ UNCHANGED notSort
    \/ L_AfterLast /\ UNCHANGED notSort
    \/ L_Return /\ UNCHANGED notSort
    \/ P_Entry /\ UNCHANGED notSort
    \/ P_While /\ UNCHANGED notSort
    \/ P_ScanRight /\ UNCHANGED notSort
    \/ P_ScanLeft /\ UNCHANGED notSort
    \/ P_Check /\ UNCHANGED notSort
    \/ H_Entry /\ UNCHANGED notSort
    \/ H_AfterPartition /\ UNCHANGED notSort
    \/ H_AfterFirst /\ UNCHANGED notSort
    \/ H_AfterLast /\ UNCHANGED notSort
    \/ H_Return /\ UNCHANGED notSort

\* the interpreter runs the call to its end: it never stops part way
SpecSort == InitSort /\ [][NextSort]_vars /\ WF_vars(NextSort)

----------------------------------------------------------------------------
(* Claims about optimize_sdp, checked under SpecSdp. *)

Solved == solution # None
SolvedOptimal == Solved /\ solution.status = "optimal"
ValidMetric == Triangle(dist_func, n)
NegativeValue(x) == x.tag = "num" /\ (x.v < 0 \/ (x.v = 0 /\ x.err < 0))

C2_NonOptimalReturnsNulls ==
    (n >= 2 /\ Solved /\ solution.status \in NonOptimalStatuses /\ pc # "extract") =>
        /\ pc = "returned"
        /\ exc = ""
        /\ ret = <<solution.status, None, None, None>>

\* C3: for n >= 2 and a valid metric oracle, the optimal value of the program
\* is D2 >= 1 (so D >= 1.0).
C3_MetricOptimumAtLeastOne ==
    (n >= 2 /\ ValidMetric /\ SolvedOptimal) => solution.D2.v >= 1

\* the constraint set of the specification, for the squared distances of
\* dist_func
ExpectedConstraints ==
    LET inner == 1 .. (n - 1)
        sq == [q \in Idx(n) \X Idx(n) |-> dist_func[q] * dist_func[q]]
    IN {[kind |-> "psd"], [kind |-> "D2_nonneg"], [kind |-> "dist_le_delta", lhs |-> sq]}
       \cup {[kind |-> "stretch", coef |-> sq[<<a, b>>], i |-> a, j |-> b]
             : a \in inner, b \in inner}
       \cup {[kind |-> "gram", gi |-> a - 1, gj |-> b - 1, i |-> a, j |-> b]
             : a \in inner, b \in inner}

\* C4: the problem handed to the solver minimizes D2 subject to exactly: G PSD,
\* D2 >= 0, squared distances <= delta on all of [0,n) x [0,n), and for each
\* pair of [1,n) x [1,n), and no other, the stretch constraint and the Gram
\* equality; no such constraint involves vertex 0 and every index of G is in
\* [0, n-1).
C4_ConstraintSetAsSpecified ==
    prob # None =>
        /\ n >= 1
        /\ prob.objective = [sense |-> "minimize", var |-> "D2"]
        /\ {prob.constraints[k] : k \in 1 .. Len(prob.constraints)} = ExpectedConstraints
        /\ Len(prob.constraints) = 3 + 2 * (n - 1) * (n - 1)
        /\ \A k \in 1 .. Len(prob.constraints) :
              LET c == prob.constraints[k]
              IN /\ c.kind \in {"stretch", "gram"} => (c.i >= 1 /\ c.j >= 1)
                 /\ c.kind = "gram" => (c.gi \in Idx(n - 1) /\ c.gj \in Idx(n - 1))

\* C4's case: a problem with stretch and Gram constraints went to the solver
C4_Witness == prob # None /\ n >= 3 /\ solver.calls = 1

\* C5: for n = 4 and an oracle that violates the triangle inequality, the
\* optimal value of the program is D2 > 1 (so D > 1.0), whichever vertices
\* take part in the violation.
C5_NonMetricOptimumAboveOne ==
    (n = 4 /\ ~ValidMetric /\ SolvedOptimal) => solution.D2.v > 1

\* C6: when the solver reports success with a negative D2, optimize_sdp
\* reports a solver error, not the optimal status with the square root of a
\* negative number.  (Stated for n >= 2, as C2.)
C6_NegativeD2IsSolverError ==
    (n >= 2 /\ pc = "returned" /\ SolvedOptimal /\ NegativeValue(solution.D2)) =>
        /\ ret[1] = "solver_error"
        /\ ret[2] # NaN

\* C7: the solver runs with progress reporting exactly when the caller passed
\* verbose = true.  (Stated for n >= 2, as C2.)
C7_VerboseForwarded ==
    (n >= 2 /\ solver.calls > 0) => solver.verbose = verbose

----------------------------------------------------------------------------
(* Claims about the sorting functions, checked under SpecSort. *)

\* lst[lo..hi] (Python indices) is in ascending order
SortedSlice(lst, lo, hi) ==
    \A a \in lo .. hi, b \in lo .. hi : a < b => Get(lst, a) <= Get(lst, b)

\* how often v occurs in lst[lo..hi]
Count(lst, lo, hi, v) == Cardinality({k \in lo .. hi : Get(lst, k) = v})

\* lst[lo..hi] and old[lo..hi] hold the same values, each as often
SameMultiset(lst, old, lo, hi) ==
    /\ Len(lst) = Len(old)
    /\ \A v \in 1 .. MaxVal : Count(lst, lo, hi, v) = Count(old, lo, hi, v)

DefaultCall(fn) == call.fn = fn /\ call.low_idx = None /\ call.high_idx = None
ExplicitCall == call.low_idx # None /\ call.high_idx # None
ReturnedNormally == stack = <<>> /\ sort_exc = "" /\ result # None

SortedWhole ==
    /\ ReturnedNormally
    /\ result = ListRef
    /\ SortedSlice(elements, 0, Len(elements) - 1)
    /\ SameMultiset(elements, elements0, 0, Len(elements) - 1)

\* C8: quicksort_lomuto with the default bounds on a non-empty list ends, and
\* returns the list it was given, sorted in ascending order and holding the
\* values it held before.
C8_LomutoSortsList ==
    (DefaultCall("lomuto") /\ Len(elements0) >= 1) ~> SortedWhole

\* C8's case: a list of four or more values, with a repeated value and out of
\* order, has been sorted by quicksort_lomuto
C8_Witness ==
    /\ DefaultCall("lomuto") /\ SortedWhole
    /\ Len(elements0) >= 4
    /\ elements # elements0
    /\ \E a \in 1 .. Len(elements0), b \in 1 .. Len(elements0) :
          a # b /\ elements0[a] = elements0[b]

\* C9: quicksort_hoare with the default bounds on any list, the empty one
\* included, ends, and returns the list it was given, sorted in ascending
\* order and holding the values it held before.
C9_HoareSortsList ==
    DefaultCall("hoare") ~> SortedWhole

\* C9's case, as C8's, for quicksort_hoare
C9_Witness ==
    /\ DefaultCall("hoare") /\ SortedWhole
    /\ Len(elements0) >= 4
    /\ elements # elements0
    /\ \E a \in 1 .. Len(elements0), b \in 1 .. Len(elements0) :
          a # b /\ elements0[a] = elements0[b]

\* C10: in a call with explicit bounds 0 <= low_idx <= high_idx < len, no
\* element outside [low_idx, high_idx] ever changes, and when the call has
\* ended it has raised nothing and the slice is sorted and holds the values it
\* held before.
C10_OnlySliceSorted ==
    ExplicitCall =>
        LET lo == call.low_idx.v
            hi == call.high_idx.v
        IN /\ Len(elements) = Len(elements0)
           /\ \A k \in Idx(Len(elements0)) \ (lo .. hi) : Get(elements, k) = Get(elements0, k)
           /\ stack = <<>> =>
                 /\ ReturnedNormally
                 /\ SortedSlice(elements, lo, hi)
                 /\ SameMultiset(elements, elements0, lo, hi)

\* C10's case: a call on an inner slice has ended, the slice was reordered,
\* and the list as a whole is not in order
C10_Witness ==
    /\ ExplicitCall /\ ReturnedNormally
    /\ call.low_idx.v > 0 /\ call.high_idx.v < Len(elements0) - 1
    /\ call.high_idx.v - call.low_idx.v >= 2
    /\ elements # elements0
    /\ ~SortedSlice(elements, 0, Len(elements) - 1)

----------------------------------------------------------------------------
(* hanoi.  A tower is the list of its discs, bottom first; tower k (Python *)
(* index) is position k + 1 of initial_state.  A frame's local "solution"  *)
(* is a reference into solutions: 0 is the list the caller passed, and the *)
(* list line 43 builds in the frame at depth d would be d.                 *)

\* the names the module tower_of_hanoi binds: the file defines hanoi and
\* imports nothing
ModuleGlobals == {"hanoi"}

\* looking the global name up succeeds; otherwise Python raises NameError
NameBound(name) == name \in ModuleGlobals

HTop == hstack[Len(hstack)]
HRest == SubSeq(hstack, 1, Len(hstack) - 1)

\* a new frame for hanoi(initial_state, solution, 3, num, start, target)
HFrame(sol, num, start, target) ==
    [pc |-> "entry", solution |-> sol, num_discs |-> num,
     start_tower_idx |-> start, target_tower_idx |-> target]

HGoto(f) == hstack' = HRest \o <<f>>
HCall(f, g) == hstack' = HRest \o <<f, g>>
HRaise(e) == hstack' = <<>> /\ hexc' = e
HRunning(at) == hstack # <<>> /\ HTop.pc = at

\* "del tower[-1]"
DelLast(tower) == SubSeq(tower, 1, Len(tower) - 1)

\* lines 42 to 46: the caller's list is replaced by a new one if it is empty;
\* building the new one looks up the name copy
Hn_Entry ==
    /\ HRunning("entry")
    /\ IF solutions[HTop.solution] = <<>>
       THEN IF NameBound("copy")
            THEN /\ solutions' = solutions @@ (Len(hstack) :> <<initial_state>>)
                 /\ HGoto([HTop EXCEPT !.solution = Len(hstack), !.pc = "extra"]
                          @@ [extra_tower_idx |-> 0])
                 /\ hexc' = hexc
            ELSE HRaise("NameError") /\ solutions' = solutions
       ELSE /\ HGoto([HTop EXCEPT !.pc = "extra"] @@ [extra_tower_idx |-> 0])
            /\ UNCHANGED <<solutions, hexc>>
    /\ UNCHANGED <<hcall, initial_state0, initial_state, hresult>>

\* lines 47 and 48: one test of the while loop
Hn_ExtraLoop ==
    /\ HRunning("extra")
    /\ IF HTop.extra_tower_idx = HTop.start_tower_idx
          \/ HTop.extra_tower_idx = HTop.target_tower_idx
       THEN HGoto([HTop EXCEPT !.extra_tower_idx = HTop.extra_tower_idx + 1])
       ELSE HGoto([HTop EXCEPT !.pc = "branch"])
    /\ UNCHANGED <<hcall, initial_state0, initial_state, solutions, hresult, hexc>>

\* lines 50, 59 and 63: one disc is moved at once; for more, the stack above
\* the largest goes to the extra tower first; for less, nothing is done
Hn_Branch ==
    /\ HRunning("branch")
    /\ LET f == HTop
       IN IF f.num_discs = 1 THEN HGoto([f EXCEPT !.pc = "move"])
          ELSE IF f.num_discs > 1
               THEN HCall([f EXCEPT !.pc = "move"],
                          HFrame(f.solution, f.num_discs - 1,
                                 f.start_tower_idx, f.extra_tower_idx))
               ELSE HGoto([f EXCEPT !.pc = "return"])
    /\ UNCHANGED <<hcall, initial_state0, initial_state, solutions, hresult, hexc>>

\* lines 52 to 57, and lines 66 to 74: the top disc leaves the start tower
\* (lines 52-53, 66-67); appending it to the target tower looks up the name
\* copy (lines 54, 68); the state is recorded (lines 57, 71); for more than
\* one disc the smaller stack is moved back on top (line 74)
Hn_Move ==
    /\ HRunning("move")
    /\ LET f == HTop
           from == f.start_tower_idx + 1
           to == f.target_tower_idx + 1
       IN IF initial_state[from] = <<>>
          THEN HRaise("IndexError") /\ UNCHANGED <<initial_state, solutions>>
          ELSE LET disc_moved == initial_state[from][Len(initial_state[from])]
                   removed == [initial_state EXCEPT ![from] = DelLast(@)]
                   moved == [removed EXCEPT ![to] = Append(@, disc_moved)]
               IN IF ~NameBound("copy")
                  THEN /\ initial_state' = removed
                       /\ solutions' = solutions
                       /\ HRaise("NameError")
                  ELSE /\ initial_state' = moved
                       /\ solutions' = [solutions EXCEPT ![f.solution] = Append(@, moved)]
                       /\ hexc' = hexc
                       /\ IF f.num_discs = 1
                          THEN HGoto([f EXCEPT !.pc = "return"])
                          ELSE HCall([f EXCEPT !.pc = "return"],
                                     HFrame(f.solution, f.num_discs - 1,
                                            f.extra_tower_idx, f.target_tower_idx))
    /\ UNCHANGED <<hcall, initial_state0, hresult>>

\* line 76; the callers of lines 63 and 74 drop the value
Hn_Return ==
    /\ HRunning("return")
    /\ hstack' = HRest
    /\ hresult' = IF Len(hstack) = 1 THEN Num(HTop.solution) ELSE hresult
    /\ UNCHANGED <<hcall, initial_state0, initial_state, solutions, hexc>>

\* the towers with discs height-1 .. 0 on tower start, largest at the bottom
Stacked(height, start) ==
    [t \in 1 .. 3 |-> IF t = start + 1 THEN [k \in 1 .. height |-> height - k] ELSE <<>>]

\* a call of hanoi on 3 towers, with 1..MaxDiscs discs stacked on the start
\* tower, asked to move the top num_discs of them, with a solution list that
\* is empty or already holds the initial state
InitHanoi ==
    /\ \E height \in 1 .. MaxDiscs, num \in 0 .. MaxDiscs, start \in 0 .. 2, target \in 0 .. 2,
          given \in BOOLEAN :
          /\ num <= height
          /\ initial_state0 = Stacked(height, start)
          /\ solutions = (0 :> IF given THEN <<initial_state0>> ELSE <<>>)
          /\ hcall = [num_towers |-> 3, num_discs |-> num, start_tower_idx |-> start,
                      target_tower_idx |-> target, solution |-> solutions[0]]
          /\ hstack = <<HFrame(0, num, start, target)>>
    /\ initial_state = initial_state0
    /\ hresult = None /\ hexc = ""
    /\ pc = "idle" /\ n = 0 /\ verbose = FALSE /\ dist_func = <<>>
    /\ dist_matrix_sq = None /\ i = 0 /\ j = 0 /\ delta = None /\ G = None
    /\ constraints = <<>> /\ prob = None /\ solver = [calls |-> 0, verbose |-> FALSE]
    /\ solution = None /\ ret = None /\ exc = ""
    /\ call = None /\ elements0 = <<>> /\ elements = <<>> /\ stack = <<>>
    /\ retval = None /\ result = None /\ sort_exc = ""

NextHanoi ==
    \/ Hn_Entry /\ UNCHANGED notHanoi
    \/ Hn_ExtraLoop /\ UNCHANGED notHanoi
    \/ Hn_Branch /\ UNCHANGED notHanoi
    \/ Hn_Move /\ UNCHANGED notHanoi
    \/ Hn_Return /\ UNCHANGED notHanoi

SpecHanoi == InitHanoi /\ [][NextHanoi]_vars

----------------------------------------------------------------------------
(* The claim about hanoi, checked under SpecHanoi. *)

\* t is s with the top disc of one tower moved onto another tower that is
\* empty or has a larger disc on top
LegalMove(s, t) ==
    \E a \in 1 .. 3, b \in 1 .. 3 :
        /\ a # b
        /\ s[a] # <<>>
        /\ LET disc == s[a][Len(s[a])]
           IN /\ (s[b] = <<>> \/ s[b][Len(s[b])] > disc)
              /\ t = [[s EXCEPT ![a] = DelLast(@)] EXCEPT ![b] = Append(@, disc)]

\* no tower of s has a larger disc above a smaller one
Ordered(s) ==
    \A t \in 1 .. 3 : \A a \in 1 .. Len(s[t]), b \in 1 .. Len(s[t]) : a < b => s[t][a] > s[t][b]

\* all discs of the call are stacked on the start tower, every one of them is
\* to be moved to another tower, and the solution list passed is empty
HanoiCase ==
    /\ hcall.num_discs >= 1
    /\ hcall.num_discs = Len(initial_state0[hcall.start_tower_idx + 1])
    /\ hcall.target_tower_idx # hcall.start_tower_idx
    /\ hcall.solution = <<>>

\* C11: called with all discs stacked on the start tower, a different target
\* tower and an empty solution list, hanoi returns a list that starts with
\* the initial state, ends with all discs on the target tower in the original
\* order, and in which every state follows from the one before by one legal
\* move, no state having a larger disc above a smaller one.
C11_HanoiReturnsLegalSolution ==
    (HanoiCase /\ hstack = <<>>) =>
        /\ hexc = ""
        /\ hresult # None
        /\ LET L == solutions[hresult.v]
           IN /\ Len(L) >= 1
              /\ L[1] = initial_state0
              /\ L[Len(L)] = Stacked(hcall.num_discs, hcall.target_tower_idx)
              /\ \A k \in 1 .. (Len(L) - 1) : LegalMove(L[k], L[k + 1])
              /\ \A k \in 1 .. Len(L) : Ordered(L[k])

=============================================================================
